---- MODULE Spec2Model ----
(***************************************************************************)
(* A model of mg, a minimal content-addressed version-control repository:  *)
(* the loose object store (object.rs), the tree builder (tree.rs), the     *)
(* commit chain and branch tip (commit.rs, log.rs), the repository         *)
(* metadata (repository.rs) and the staging-index writer (index.rs).       *)
(*                                                                         *)
(* Bytes are modelled as tokens, 4-tuples <<class, a, b, ref>>:            *)
(*   <<"byte",  "",    ch,   NoRef>>  one byte of an opaque payload        *)
(*   <<"line",  pfx,   rest, ref>>    the text line pfx ++ rest ++ hex(ref)*)
(*                                    followed by "\n"                    *)
(*   <<"entry", mode,  name, ref>>    mode ++ " " ++ name ++ NUL ++ raw ref *)
(* An object id is the SHA-1 of the framed object; SHA-1 is modelled as a  *)
(* collision-free function, the tuple of what was hashed.                  *)
(***************************************************************************)
EXTENDS Integers, Sequences, FiniteSets, TLC

VARIABLES
    head,       \* content of .git/HEAD; NoFile before init_repository
    dirs,       \* the two-character directories under .git/objects
    objects,    \* loose object files: id -> file content
    refs,       \* files under .git/refs/heads: branch -> content
    index,      \* content of .git/index; NoIndex when absent
    worktree,   \* working directory: path (sequence of names) -> node
    ignore,     \* Repository.ignore, the lines of .gitignore at construction
    last,       \* the last call and what it returned
    pc,         \* position of the operation in progress (stepwise runs)
    loc,        \* locals of the operation in progress
    steps       \* how many operations have run

storeVars == <<dirs, objects>>
vars == <<head, dirs, objects, refs, index, worktree, ignore, last, pc, loc, steps>>

----------------------------------------------------------------------------
(* Bounds of the model. *)

MaxOps == 4
MaxCommitOps == 5
MaxTreeOps == 5
MaxCrashOps == 3
MaxReadOps == 3
MaxDeclared == 2
MaxPackEntries == 3
MaxIdxObjects == 2
MaxIndexOps == 5
MaxInstrs == 2
MaxFrames == 3

----------------------------------------------------------------------------
(* Values. *)

NoFile == <<>>
EmptyMap == [x \in {} |-> x]
NoRef == <<>>

Byte(ch) == <<"byte", "", ch, NoRef>>
Line(pfx, rest, ref) == <<"line", pfx, rest, ref>>
Entry(mode, name, ref) == <<"entry", mode, name, ref>>

\* kind.rs: the tagged enumeration
Kinds == {"Blob(false)", "Blob(true)", "Commit", "Tree", "Symlink"}

\* kind.rs Display: the kind text
KindString(kind) ==
    CASE kind \in {"Blob(false)", "Blob(true)"} -> "blob"
      [] kind = "Commit" -> "commit"
      [] kind = "Tree" -> "tree"
      [] kind = "Symlink" -> "symlink"

\* kind.rs to_mode
ToMode(kind) ==
    CASE kind = "Blob(false)" -> "100644"
      [] kind = "Blob(true)" -> "100755"
      [] kind = "Commit" -> "160000"
      [] kind = "Tree" -> "40000"
      [] kind = "Symlink" -> "120000"

\* Byte length of the texts the model uses (str::len).
TextLen(s) ==
    CASE s = "" -> 0
      [] s \in {"a", "b", "c", "x", "m"} -> 1
      [] s = "m2" -> 2
      [] s = ".git" -> 4
      [] s = "tree " -> 5
      [] s = "40000" -> 5
      [] s \in {"100644", "100755", "160000", "120000"} -> 6
      [] s = "parent " -> 7
      [] OTHER -> 3

\* Byte length of one token.
TokLen(t) ==
    CASE t[1] = "byte" -> 1
      [] t[1] = "line" -> TextLen(t[2]) + TextLen(t[3])
                          + (IF t[4] = NoRef THEN 0 ELSE 40) + 1
      [] t[1] = "entry" -> TextLen(t[2]) + 1 + TextLen(t[3]) + 1 + 20
      [] t[1] = "raw" -> 1

RECURSIVE ContentLen(_)
ContentLen(content) ==
    IF content = <<>> THEN 0
    ELSE TokLen(Head(content)) + ContentLen(Tail(content))

----------------------------------------------------------------------------
(* The loose object store, object.rs. *)

\* Sha1 over "<kind-text> <len>\0" and the content (collision-free).
Sha1(header, len, content) == <<header, len, content>>

\* write_object: the digest of the framed object
ObjectId(kind, content) ==
    Sha1(KindString(kind), ContentLen(content), content)

\* hash_str[..2], the directory of an object: a many-to-one function of the id
Prefix(id) == <<id[1], id[2] % 2>>

\* File::create: a file nothing has been flushed to
EmptyFile == [kind |-> "", size |-> 0, data |-> <<>>, fin |-> FALSE]

\* What write_object sends through the ZlibEncoder: header, then content.
Framed(kind, content) ==
    [kind |-> KindString(kind), size |-> ContentLen(content),
     data |-> content, fin |-> TRUE]

Failed(why) == [ok |-> FALSE, kind |-> "", size |-> 0, data |-> <<>>, err |-> why]

\* read_object: open, inflate, read the header up to NUL, match the kind text
ReadObject(objs, id) ==
    IF id \notin DOMAIN objs THEN Failed("opening the object")
    ELSE LET f == objs[id] IN
         IF ~f.fin THEN Failed("UnexpectedChar")
         ELSE IF f.kind \notin {"blob", "commit", "tree"}
              THEN Failed("invalid object type found")
         ELSE [ok |-> TRUE,
               kind |-> CASE f.kind = "blob" -> "Blob(true)"
                          [] f.kind = "commit" -> "Commit"
                          [] f.kind = "tree" -> "Tree",
               size |-> f.size, data |-> f.data, err |-> ""]

\* Object::string for Blob and Commit: read_to_end of the payload
ObjectData(obj) == obj.data

\* write_object, lines 90-93: create the directory if missing
MkObjectDir(d, id) == d \cup {Prefix(id)}

\* Mutant of CreateObjectFile: the object's directory is made afresh, which
\* drops the objects already in it.
CreateObjectFileFreshDir(o, id) ==
    [x \in {y \in DOMAIN o : Prefix(y) # Prefix(id)} \cup {id} |->
        IF x = id THEN EmptyFile ELSE o[x]]

\* write_object, line 100: File::create(target_file)
CreateObjectFile(o, id) == (id :> EmptyFile) @@ o

\* write_object, lines 102-108: header and content through the encoder, finish
FinishObjectFile(o, id, kind, content) ==
    [x \in DOMAIN o \cup {id} |-> IF x = id THEN Framed(kind, content) ELSE o[x]]

\* Mutant of WriteObject: File::create runs before the existence check, so
\* an object already stored is truncated and then taken as present.
WriteObjectCreateFirst(d, o, kind, content) ==
    LET id == ObjectId(kind, content) IN
    IF id \in DOMAIN o
    THEN [dirs |-> MkObjectDir(d, id),
          objects |-> [x \in DOMAIN o |-> IF x = id THEN EmptyFile ELSE o[x]],
          id |-> id]
    ELSE [dirs |-> MkObjectDir(d, id),
          objects |-> FinishObjectFile(CreateObjectFile(o, id), id, kind, content),
          id |-> id]

\* write_object as a whole: the store it leaves and the id it returns
WriteObject(d, o, kind, content) ==
    LET id == ObjectId(kind, content) IN
    IF id \in DOMAIN o
    THEN [dirs |-> MkObjectDir(d, id), objects |-> o, id |-> id]
    ELSE [dirs |-> MkObjectDir(d, id),
          objects |-> FinishObjectFile(CreateObjectFile(o, id), id, kind, content),
          id |-> id]

----------------------------------------------------------------------------
(* The working directory and the tree builder, tree.rs. *)

UserNames == {"a", "b"}
Names == UserNames \cup {".git"}

\* String::cmp on the names the model uses: byte order, '.' < 'a' < 'b'
NameRank(n) ==
    CASE n = ".git" -> 0
      [] n = "a" -> 1
      [] n = "b" -> 2
      [] n = "deep" -> 3
      [] n = "deeper" -> 4

FileNode(content, exec) == [type |-> "file", content |-> content, exec |-> exec]
DirNode == [type |-> "dir", content |-> <<>>, exec |-> FALSE]

\* The metadata directory .git stands in the root once the repository exists.
IsDir(wt, p) == p = <<".git">> \/ (p \in DOMAIN wt /\ wt[p].type = "dir")

\* The directories write_tree reads when it starts at the root.
DirPaths(wt) == {<<>>} \cup {p \in DOMAIN wt : wt[p].type = "dir"}

Children(wt, git, path) ==
    {p[Len(p)] : p \in {q \in DOMAIN wt :
                          Len(q) = Len(path) + 1 /\ SubSeq(q, 1, Len(path)) = path}}
    \cup (IF path = <<>> /\ git THEN {".git"} ELSE {})

\* std::fs::read_dir: the children of path, in the order the filesystem
\* gives them (order: a sequence holding every name once).
ReadDir(wt, git, order, path) ==
    SelectSeq(order, LAMBDA n : n \in Children(wt, git, path))

\* The order read_dir lists a directory in; ord maps each directory to one.
OrderAt(ord, path) == IF path \in DOMAIN ord THEN ord[path] ELSE <<".git", "a", "b">>

\* write_blob: the file's content stored as Blob(false)
WriteBlob(st, wt, p) ==
    WriteObject(st.dirs, st.objects, "Blob(false)", wt[p].content)

\* Mutant of SortByName: the entries stay in read_dir order.
SortByNameSkipped(entries) == entries

\* entries.sort_by(|a, b| a.name.cmp(&b.name)): a stable sort
RECURSIVE InsertSorted(_, _)
InsertSorted(sorted, e) ==
    IF sorted = <<>> THEN <<e>>
    ELSE IF NameRank(e.name) < NameRank(Head(sorted).name)
         THEN <<e>> \o sorted
         ELSE <<Head(sorted)>> \o InsertSorted(Tail(sorted), e)

RECURSIVE SortByName(_)
SortByName(entries) ==
    IF entries = <<>> THEN <<>>
    ELSE InsertSorted(SortByName(SubSeq(entries, 1, Len(entries) - 1)),
                      entries[Len(entries)])

\* write_tree, lines 51-58: "<mode> <name>\0<hash>" for each entry
EncodeTree(entries) ==
    [i \in 1..Len(entries) |->
        Entry(entries[i].mode, entries[i].name, entries[i].hash)]

\* write_tree, line 21: the children the walk leaves out
SkipEntry(name, ign) == name = ".git"

RECURSIVE WriteTree(_, _, _, _, _, _), WalkDir(_, _, _, _, _, _, _, _)

\* write_tree, lines 14-47: the loop over the directory's children
WalkDir(st, wt, git, ign, ord, path, names, entries) ==
    IF names = <<>> THEN [dirs |-> st.dirs, objects |-> st.objects, entries |-> entries]
    ELSE LET n == Head(names)
             p == Append(path, n)
         IN  IF SkipEntry(n, ign)
             THEN WalkDir(st, wt, git, ign, ord, path, Tail(names), entries)
             ELSE LET r == IF IsDir(wt, p)
                           THEN WriteTree(st, wt, git, ign, ord, p)
                           ELSE WriteBlob(st, wt, p)
                      kind == IF IsDir(wt, p) THEN "Tree"
                              ELSE IF wt[p].exec THEN "Blob(true)" ELSE "Blob(false)"
                  IN  WalkDir([dirs |-> r.dirs, objects |-> r.objects],
                              wt, git, ign, ord, path, Tail(names),
                              Append(entries, [mode |-> ToMode(kind), kind |-> kind,
                                               name |-> n, hash |-> r.id]))

\* write_tree: walk, sort, encode, store as a Tree
WriteTree(st, wt, git, ign, ord, path) ==
    LET w == WalkDir(st, wt, git, ign, ord, path,
                     ReadDir(wt, git, OrderAt(ord, path), path), <<>>)
    IN  WriteObject(w.dirs, w.objects, "Tree", EncodeTree(SortByName(w.entries)))

----------------------------------------------------------------------------
(* Commits and the branch tip, commit.rs and log.rs. *)

\* init_repository, line 53: the content of HEAD
HeadMain == <<"ref: refs/heads/", "main">>

\* current_branch: HEAD with the "ref: refs/heads/" prefix and the end trimmed
CurrentBranch(h) ==
    IF h = NoFile THEN [ok |-> FALSE, val |-> ""] ELSE [ok |-> TRUE, val |-> h[2]]

\* hex::encode of a digest
HexEncode(id) == <<"hex", id>>

\* <[u8; 20]>::from_hex
FromHex(text) ==
    IF Len(text) = 2 /\ text[1] = "hex"
    THEN [ok |-> TRUE, val |-> text[2]]
    ELSE [ok |-> FALSE, val |-> NoRef]

\* current_commit: the branch file of the current branch, parsed as hex
CurrentCommit(h, r) ==
    LET b == CurrentBranch(h) IN
    IF ~b.ok \/ b.val \notin DOMAIN r THEN [ok |-> FALSE, val |-> NoRef]
    ELSE FromHex(r[b.val])

HasCurrentCommit(h, r) == CurrentCommit(h, r).ok

\* set_current_commit, lines 55-57: File::create when the file does not exist
CreateBranchFile(r, b) == IF b \in DOMAIN r THEN r ELSE (b :> <<>>) @@ r

\* std::fs::write opens the file truncating it ...
TruncateBranchFile(r, b) == [x \in DOMAIN r \cup {b} |-> IF x = b THEN <<>> ELSE r[x]]

\* ... and then writes the hex id
FillBranchFile(r, b, id) ==
    [x \in DOMAIN r \cup {b} |-> IF x = b THEN HexEncode(id) ELSE r[x]]

\* set_current_commit as a whole
SetCurrentCommit(h, r, id) ==
    LET b == CurrentBranch(h).val IN
    FillBranchFile(TruncateBranchFile(CreateBranchFile(r, b), b), b, id)

\* The text of a message, split at its newlines: a non-empty sequence of lines.
TextLine(s) == Line(s, "", NoRef)
BlankLine == Line("", "", NoRef)

\* Mutant of CommitPayload: the parent line is never written.
CommitPayloadNoParent(treeId, has, parentId, message) ==
    <<Line("tree ", "", treeId)>> \o <<BlankLine>> \o message

\* commit, lines 71-84: the payload
CommitPayload(treeId, has, parentId, message) ==
    <<Line("tree ", "", treeId)>>
    \o (IF has THEN <<Line("parent ", "", parentId)>> ELSE <<>>)
    \o <<BlankLine>>
    \o message

\* Mutant of Commit: the tree is hashed but the objects write_tree stored are
\* not kept.
CommitTreeNotStored(h, d, o, r, wt, ign, ord, message) ==
    LET cur == CurrentCommit(h, r)
        t == WriteTree([dirs |-> d, objects |-> o], wt, h # NoFile, ign, ord, <<>>)
        out == CommitPayload(t.id, cur.ok, cur.val, message)
        c == WriteObject(d, o, "Commit", out)
    IN  [dirs |-> c.dirs, objects |-> c.objects,
         refs |-> SetCurrentCommit(h, r, c.id), id |-> c.id]

\* commit as a whole: write_tree, payload, write_object, set_current_commit
Commit(h, d, o, r, wt, ign, ord, message) ==
    LET cur == CurrentCommit(h, r)
        t == WriteTree([dirs |-> d, objects |-> o], wt, h # NoFile, ign, ord, <<>>)
        out == CommitPayload(t.id, cur.ok, cur.val, message)
        c == WriteObject(t.dirs, t.objects, "Commit", out)
    IN  [dirs |-> c.dirs, objects |-> c.objects,
         refs |-> SetCurrentCommit(h, r, c.id), id |-> c.id]

\* log, line 17: position of the first empty line (0 when there is none)
RECURSIVE FirstEmptyLine(_, _)
FirstEmptyLine(lines, i) ==
    IF i > Len(lines) THEN 0
    ELSE IF lines[i] = BlankLine THEN i ELSE FirstEmptyLine(lines, i + 1)

\* log, line 25: the first line that starts with "parent " (0 when none)
RECURSIVE FindParentLine(_, _)
FindParentLine(lines, i) ==
    IF i > Len(lines) THEN 0
    ELSE IF lines[i][1] = "line" /\ lines[i][2] = "parent " THEN i
    ELSE FindParentLine(lines, i + 1)

\* log, line 31: from_hex of what follows the first space of the parent line
ParentOfLine(l) ==
    IF l[3] = "" /\ l[4] # NoRef THEN FromHex(HexEncode(l[4]))
    ELSE [ok |-> FALSE, val |-> NoRef]

\* log, lines 10-32: the loop from one commit on; what it prints and how it
\* ends (ok = FALSE: an error is returned, or the unwrap or the index panics)
RECURSIVE LogFrom(_, _, _)
LogFrom(o, id, printed) ==
    LET obj == ReadObject(o, id) IN
    IF ~obj.ok THEN [ok |-> FALSE, out |-> printed]
    ELSE LET lines == ObjectData(obj)
             e == FirstEmptyLine(lines, 1)
             k == FindParentLine(lines, 1)
         IN  IF e = 0 \/ e + 1 > Len(lines) THEN [ok |-> FALSE, out |-> printed]
             ELSE LET now == Append(printed, <<id, lines[e + 1]>>) IN
                  IF k = 0 THEN [ok |-> TRUE, out |-> now]
                  ELSE LET par == ParentOfLine(lines[k]) IN
                       IF ~par.ok THEN [ok |-> FALSE, out |-> now]
                       ELSE LogFrom(o, par.val, now)

\* log: from current_commit on
Log(h, r, o) ==
    LET cur == CurrentCommit(h, r) IN
    IF ~cur.ok THEN [ok |-> FALSE, out |-> <<>>]
    ELSE LogFrom(o, cur.val, <<>>)

----------------------------------------------------------------------------
(* The staging-index writer, index.rs. *)

\* The files of the metadata directory, which WalkDir visits like any other:
\* HEAD, index, the loose objects and the branch files, in path order.  The
\* byte order of the hex digests is modelled by a fixed order of the ids.
RECURSIVE SetToSeq(_)
SetToSeq(S) ==
    IF S = {} THEN <<>>
    ELSE LET x == CHOOSE y \in S : TRUE IN <<x>> \o SetToSeq(S \ {x})

\* No .git/index file.
NoIndex == [signature |-> "", version |-> 0, count |-> 0, entries |-> <<>>]

\* The bytes of a metadata file, kept whole (their length is not modelled).
Raw(x) == <<<<"raw", "", "", x>>>>

\* hash_file: the blob id of a file's bytes, nothing stored
HashFile(content) == Sha1("blob", ContentLen(content), content)

IndexEntry(path, obj, content) == [path |-> path, obj |-> obj, sha1 |-> HashFile(content)]

MetaFiles(h, o, r, idx) ==
    (IF h = NoFile THEN <<>> ELSE <<IndexEntry(<<".git", "HEAD">>, NoRef, Raw(h))>>)
    \o (IF idx = NoIndex THEN <<>> ELSE <<IndexEntry(<<".git", "index">>, NoRef, Raw(idx))>>)
    \o [i \in 1..Cardinality(DOMAIN o) |->
          LET id == SetToSeq(DOMAIN o)[i] IN
          IndexEntry(<<".git", "objects">>, id, Raw(o[id]))]
    \o [i \in 1..Cardinality(DOMAIN r) |->
          LET b == SetToSeq(DOMAIN r)[i] IN
          IndexEntry(<<".git", "refs", "heads", b>>, NoRef, Raw(r[b]))]

\* list_all_files, line 228: Path::ends_with on whole components
EndsWith(path, pat) ==
    pat[1] = "name" /\ path # <<>> /\ path[Len(path)] = pat[2]

\* list_all_files, line 235: str::starts_with on "/<relative path>"
StartsWith(path, pat) ==
    pat[1] = "root" /\ path # <<>> /\ path[1] = pat[2]

Ignored(path, ign) ==
    \E i \in 1..Len(ign) : EndsWith(path, ign[i]) \/ StartsWith(path, ign[i])

\* files.sort() on the relative path strings
PathLess(p, q) ==
    \E i \in 1..Len(q) :
        /\ i <= Len(p) + 1
        /\ \A j \in 1..(i - 1) : p[j] = q[j]
        /\ (i = Len(p) + 1 \/ NameRank(p[i]) < NameRank(q[i]))

RECURSIVE SortPaths(_)
SortPaths(S) ==
    IF S = {} THEN <<>>
    ELSE LET m == CHOOSE x \in S : \A y \in S \ {x} : PathLess(x, y)
         IN  <<m>> \o SortPaths(S \ {m})

\* list_all_files over the working files: every regular file not ignored
ListWorkFiles(wt, ign) ==
    SortPaths({p \in DOMAIN wt : wt[p].type = "file" /\ ~Ignored(p, ign)})

\* write_index: header and one entry per listed file
WriteIndex(h, o, r, idx, wt, ign) ==
    LET work == ListWorkFiles(wt, ign)
        entries == MetaFiles(h, o, r, idx)
                   \o [i \in 1..Len(work) |->
                         IndexEntry(work[i], NoRef, wt[work[i]].content)]
    IN  [signature |-> "DIRC", version |-> 2, count |-> Len(entries),
         entries |-> entries]

----------------------------------------------------------------------------
(* Inputs. *)

Payloads == {<<>>, <<Byte("a")>>}

FileChoices == {FileNode(<<Byte("a")>>, FALSE), FileNode(<<Byte("b")>>, TRUE)}

\* Repository.ignore (a public field, filled from the lines of .gitignore by
\* Repository::new): empty, or the one line "b"
IgnoreChoices == {<<>>, <<<<"name", "b">>>>}

\* commit messages: "m", "x\n", "parent x"
Messages == {<<TextLine("m")>>, <<TextLine("x"), BlankLine>>,
             <<Line("parent ", "x", NoRef)>>}

RootPaths == {<<n>> : n \in UserNames}
TreePaths == RootPaths \cup {<<"a", n>> : n \in Names}

Perms == {q \in [1..3 -> Names] : \A i, j \in 1..3 : q[i] = q[j] => i = j}
Orders(wt) == [DirPaths(wt) -> Perms]

Ret(op, ok, id, kind, arg, out, hit, prev) ==
    [op |-> op, ok |-> ok, id |-> id, kind |-> kind, arg |-> arg, out |-> out,
     hit |-> hit, prev |-> prev]

NoLoc == [op |-> "", stage |-> "", kind |-> "", content |-> <<>>, id |-> NoRef,
          has |-> FALSE, message |-> <<>>, hit |-> FALSE]

----------------------------------------------------------------------------
(* The operations, each as one step. *)

\* Repository::new in a directory that holds no repository yet
Init ==
    /\ head = NoFile
    /\ dirs = {}
    /\ objects = EmptyMap
    /\ refs = EmptyMap
    /\ index = NoIndex
    /\ worktree = EmptyMap
    /\ ignore \in IgnoreChoices
    /\ last = Ret("new", TRUE, NoRef, "", <<>>, <<>>, FALSE, NoRef)
    /\ pc = "idle"
    /\ loc = NoLoc
    /\ steps = 0

\* init_repository
InitRepository ==
    /\ pc = "idle"
    /\ head = NoFile
    /\ head' = HeadMain
    /\ last' = Ret("init", TRUE, NoRef, "", <<>>, <<>>, FALSE, NoRef)
    /\ UNCHANGED <<dirs, objects, refs, index, worktree, ignore, pc, loc>>

\* The user writes a regular file of the working directory.
EditFile(p, f) ==
    /\ pc = "idle"
    /\ ~IsDir(worktree, p)
    /\ IF Len(p) = 1 THEN TRUE ELSE IsDir(worktree, SubSeq(p, 1, Len(p) - 1))
    /\ IF p \in DOMAIN worktree THEN worktree[p] # f ELSE TRUE
    /\ worktree' = (p :> f) @@ worktree
    /\ UNCHANGED <<head, dirs, objects, refs, index, ignore, last, pc, loc>>

\* The user makes a directory in the working directory.
MkDir(p) ==
    /\ pc = "idle"
    /\ p \notin DOMAIN worktree
    /\ IF Len(p) = 1 THEN TRUE ELSE IsDir(worktree, SubSeq(p, 1, Len(p) - 1))
    /\ worktree' = (p :> DirNode) @@ worktree
    /\ UNCHANGED <<head, dirs, objects, refs, index, ignore, last, pc, loc>>

\* write_object(kind, content)
Put(kind, content) ==
    /\ pc = "idle"
    /\ IF head = NoFile
       THEN /\ last' = Ret("put", FALSE, NoRef, kind, content, <<>>, FALSE, NoRef)
            /\ UNCHANGED storeVars
       ELSE LET w == WriteObject(dirs, objects, kind, content) IN
            /\ dirs' = w.dirs
            /\ objects' = w.objects
            /\ last' = Ret("put", TRUE, w.id, kind, content, <<>>,
                           w.id \in DOMAIN objects, NoRef)
    /\ UNCHANGED <<head, refs, index, worktree, ignore, pc, loc>>

\* read_object(id), then the payload read to its end; a reader may come at
\* any moment of an operation in progress
Get(id) ==
    /\ LET g == ReadObject(objects, id) IN
       last' = Ret("get", g.ok, id, g.kind, <<>>, ObjectData(g), FALSE, NoRef)
    /\ UNCHANGED <<head, dirs, objects, refs, index, worktree, ignore, pc, loc>>

\* write_blob(path)
PutFile(p) ==
    /\ pc = "idle"
    /\ IF head = NoFile \/ p \notin DOMAIN worktree \/ IsDir(worktree, p)
       THEN /\ last' = Ret("put_file", FALSE, NoRef, "", <<>>, <<>>, FALSE, NoRef)
            /\ UNCHANGED storeVars
       ELSE LET w == WriteBlob([dirs |-> dirs, objects |-> objects], worktree, p) IN
            /\ dirs' = w.dirs
            /\ objects' = w.objects
            /\ last' = Ret("put_file", TRUE, w.id, "Blob(false)", worktree[p].content,
                           <<>>, w.id \in DOMAIN objects, NoRef)
    /\ UNCHANGED <<head, refs, index, worktree, ignore, pc, loc>>

\* write_tree(root), the filesystem listing each directory in the order ord
WriteTreeOp(ord) ==
    /\ pc = "idle"
    /\ head # NoFile
    /\ LET w == WriteTree([dirs |-> dirs, objects |-> objects], worktree, TRUE,
                          ignore, ord, <<>>) IN
       /\ dirs' = w.dirs
       /\ objects' = w.objects
       /\ last' = Ret("write_tree", TRUE, w.id, "Tree", worktree, <<>>,
                      w.id \in DOMAIN objects, NoRef)
    /\ UNCHANGED <<head, refs, index, worktree, ignore, pc, loc>>

\* commit(message)
CommitOp(message, ord) ==
    /\ pc = "idle"
    /\ head # NoFile
    /\ LET c == Commit(head, dirs, objects, refs, worktree, ignore, ord, message) IN
       /\ dirs' = c.dirs
       /\ objects' = c.objects
       /\ refs' = c.refs
       /\ last' = Ret("commit", TRUE, c.id, "Commit", message, <<>>,
                      c.id \in DOMAIN objects, CurrentCommit(head, refs).val)
    /\ UNCHANGED <<head, index, worktree, ignore, pc, loc>>

\* log()
LogOp ==
    /\ pc = "idle"
    /\ LET l == Log(head, refs, objects) IN
       last' = Ret("log", l.ok, NoRef, "", <<>>, l.out, FALSE, NoRef)
    /\ UNCHANGED <<head, dirs, objects, refs, index, worktree, ignore, pc, loc>>

\* write_index()
WriteIndexOp ==
    /\ pc = "idle"
    /\ head # NoFile
    /\ index' = WriteIndex(head, objects, refs, index, worktree, ignore)
    /\ last' = Ret("write_index", TRUE, NoRef, "", <<>>, <<>>, FALSE, NoRef)
    /\ UNCHANGED <<head, dirs, objects, refs, worktree, ignore, pc, loc>>

\* One more operation of a run of at most n.
Counted(n) ==
    /\ steps < n
    /\ steps' = steps + 1

\* Any operation of the repository.
Next ==
    \/ Counted(MaxOps) /\ InitRepository
    \/ Counted(MaxOps) /\ \E p \in RootPaths, f \in FileChoices : EditFile(p, f)
    \/ Counted(MaxOps) /\ \E kind \in Kinds, content \in Payloads : Put(kind, content)
    \/ Counted(MaxOps) /\ \E p \in RootPaths : PutFile(p)
    \/ Counted(MaxOps) /\ \E ord \in Orders(worktree) : WriteTreeOp(ord)
    \/ Counted(MaxOps) /\ \E m \in Messages, ord \in Orders(worktree) : CommitOp(m, ord)
    \/ Counted(MaxOps) /\ WriteIndexOp

Spec == Init /\ [][Next]_vars

\* Commits and log on a repository, the working files changing in between.
NextCommit ==
    \/ Counted(MaxCommitOps) /\ InitRepository
    \/ Counted(MaxCommitOps) /\ \E p \in RootPaths, f \in FileChoices : EditFile(p, f)
    \/ Counted(MaxCommitOps) /\ \E m \in Messages, ord \in Orders(worktree) : CommitOp(m, ord)
    \/ Counted(MaxCommitOps) /\ LogOp

SpecCommit == Init /\ [][NextCommit]_vars

\* write_tree on a repository that exists, over a working directory with a
\* subdirectory.
InitTree ==
    /\ head = HeadMain
    /\ dirs = {}
    /\ objects = EmptyMap
    /\ refs = EmptyMap
    /\ index = NoIndex
    /\ worktree = EmptyMap
    /\ ignore \in IgnoreChoices
    /\ last = Ret("new", TRUE, NoRef, "", <<>>, <<>>, FALSE, NoRef)
    /\ pc = "idle"
    /\ loc = NoLoc
    /\ steps = 0

NextTree ==
    \/ Counted(MaxTreeOps) /\ \E p \in TreePaths, f \in FileChoices : EditFile(p, f)
    \/ Counted(MaxTreeOps) /\ \E p \in RootPaths : MkDir(p)
    \/ Counted(MaxTreeOps) /\ \E ord \in Orders(worktree) : WriteTreeOp(ord)

SpecTree == InitTree /\ [][NextTree]_vars

----------------------------------------------------------------------------
(* The same operations statement by statement, any of which a crash (or an  *)
(* I/O error, which returns at once) may follow: what is on disk stays, the *)
(* operation's locals are lost.                                             *)

\* write_object, lines 84-88: the digest is computed
BeginPut(kind, content) ==
    /\ pc = "idle"
    /\ head # NoFile
    /\ pc' = "wo_dir"
    /\ loc' = [NoLoc EXCEPT !.op = "put", !.kind = kind, !.content = content,
                            !.id = ObjectId(kind, content)]
    /\ UNCHANGED <<head, dirs, objects, refs, index, worktree, ignore, last>>

\* commit, lines 65-70: has_current_commit, then write_tree up to the point
\* where it stores the root tree
BeginCommit(message, ord) ==
    /\ pc = "idle"
    /\ head # NoFile
    /\ LET w == WalkDir([dirs |-> dirs, objects |-> objects], worktree, TRUE,
                        ignore, ord, <<>>,
                        ReadDir(worktree, TRUE, OrderAt(ord, <<>>), <<>>), <<>>)
           content == EncodeTree(SortByName(w.entries))
       IN  /\ dirs' = w.dirs
           /\ objects' = w.objects
           /\ loc' = [NoLoc EXCEPT !.op = "commit", !.stage = "tree",
                                   !.kind = "Tree", !.content = content,
                                   !.id = ObjectId("Tree", content),
                                   !.has = HasCurrentCommit(head, refs),
                                   !.message = message]
    /\ pc' = "wo_dir"
    /\ UNCHANGED <<head, refs, index, worktree, ignore, last>>

\* write_object, lines 90-93
WoDir ==
    /\ pc = "wo_dir"
    /\ dirs' = MkObjectDir(dirs, loc.id)
    /\ pc' = "wo_exists"
    /\ UNCHANGED <<head, objects, refs, index, worktree, ignore, last, loc>>

\* write_object has returned loc.id to its caller: put is over; write_tree
\* hands the tree id to commit, which composes its payload (lines 71-84) and
\* calls write_object; commit goes on to set_current_commit.
Returned(hit) ==
    IF loc.op = "put"
    THEN /\ pc' = "idle"
         /\ loc' = NoLoc
         /\ last' = Ret("put", TRUE, loc.id, loc.kind, loc.content, <<>>, hit, NoRef)
    ELSE IF loc.stage = "tree"
    THEN LET out == CommitPayload(loc.id, loc.has, CurrentCommit(head, refs).val,
                                  loc.message)
         IN  /\ pc' = "wo_dir"
             /\ loc' = [loc EXCEPT !.stage = "commit", !.kind = "Commit",
                                   !.content = out,
                                   !.id = ObjectId("Commit", out)]
             /\ UNCHANGED last
    ELSE /\ pc' = "sc_create"
         /\ loc' = [loc EXCEPT !.hit = hit]
         /\ UNCHANGED last

\* write_object, lines 95-98: the file exists, the id is returned
WoExists ==
    /\ pc = "wo_exists"
    /\ IF loc.id \in DOMAIN objects
       THEN Returned(TRUE)
       ELSE pc' = "wo_create" /\ UNCHANGED <<loc, last>>
    /\ UNCHANGED <<head, dirs, objects, refs, index, worktree, ignore>>

\* write_object, line 100
WoCreate ==
    /\ pc = "wo_create"
    /\ objects' = CreateObjectFile(objects, loc.id)
    /\ pc' = "wo_finish"
    /\ UNCHANGED <<head, dirs, refs, index, worktree, ignore, last, loc>>

\* write_object, lines 102-110
WoFinish ==
    /\ pc = "wo_finish"
    /\ objects' = FinishObjectFile(objects, loc.id, loc.kind, loc.content)
    /\ Returned(FALSE)
    /\ UNCHANGED <<head, dirs, refs, index, worktree, ignore>>

\* set_current_commit, lines 55-57
ScCreate ==
    /\ pc = "sc_create"
    /\ refs' = CreateBranchFile(refs, CurrentBranch(head).val)
    /\ pc' = "sc_trunc"
    /\ UNCHANGED <<head, dirs, objects, index, worktree, ignore, last, loc>>

\* set_current_commit, line 59: std::fs::write opens the file, truncating it
ScTrunc ==
    /\ pc = "sc_trunc"
    /\ refs' = TruncateBranchFile(refs, CurrentBranch(head).val)
    /\ pc' = "sc_write"
    /\ UNCHANGED <<head, dirs, objects, index, worktree, ignore, last, loc>>

\* set_current_commit, line 59: ... and writes the hex id; commit returns
ScWrite ==
    /\ pc = "sc_write"
    /\ refs' = FillBranchFile(refs, CurrentBranch(head).val, loc.id)
    /\ pc' = "idle"
    /\ loc' = NoLoc
    /\ last' = Ret("commit", TRUE, loc.id, "Commit", loc.message, <<>>, loc.hit, NoRef)
    /\ UNCHANGED <<head, dirs, objects, index, worktree, ignore>>

\* The process dies, or an I/O call fails and the error is returned.
Crash ==
    /\ pc # "idle"
    /\ pc' = "idle"
    /\ loc' = NoLoc
    /\ last' = Ret("crash", FALSE, loc.id, loc.kind, loc.content, <<>>, FALSE, NoRef)
    /\ UNCHANGED <<head, dirs, objects, refs, index, worktree, ignore>>

CrashMessages == {<<TextLine("m")>>}

NextCrash ==
    \/ Counted(MaxCrashOps) /\ InitRepository
    \/ Counted(MaxCrashOps) /\ \E content \in Payloads : BeginPut("Blob(false)", content)
    \/ Counted(MaxCrashOps) /\ \E m \in CrashMessages, ord \in Orders(worktree) : BeginCommit(m, ord)
    \/ UNCHANGED steps /\ WoDir
    \/ UNCHANGED steps /\ WoExists
    \/ UNCHANGED steps /\ WoCreate
    \/ UNCHANGED steps /\ WoFinish
    \/ UNCHANGED steps /\ ScCreate
    \/ UNCHANGED steps /\ ScTrunc
    \/ UNCHANGED steps /\ ScWrite
    \/ UNCHANGED steps /\ Crash
    \/ UNCHANGED steps /\ \E id \in DOMAIN objects : Get(id)

SpecCrash == Init /\ [][NextCrash]_vars

----------------------------------------------------------------------------
(* Reading object files this program did not write: the object directory   *)
(* is shared with every other tool of the same on-disk format.             *)

\* The header kinds, declared sizes and payloads of the files another tool
\* leaves in the store: the declared size may differ from the payload's.
ForeignKinds == {"blob", "commit"}
ForeignData == {<<>>, <<Byte("a")>>, <<Byte("a"), Byte("b")>>}
ForeignFiles ==
    [kind : ForeignKinds, size : 0..MaxDeclared, data : ForeignData, fin : {TRUE}]

\* Another tool stores an object file under the digest of its bytes.
StoreForeign(f) ==
    /\ pc = "idle"
    /\ head # NoFile
    /\ Sha1(f.kind, f.size, f.data) \notin DOMAIN objects
    /\ dirs' = MkObjectDir(dirs, Sha1(f.kind, f.size, f.data))
    /\ objects' = (Sha1(f.kind, f.size, f.data) :> f) @@ objects
    /\ last' = Ret("foreign", TRUE, Sha1(f.kind, f.size, f.data), "", <<>>, <<>>,
                   FALSE, NoRef)
    /\ UNCHANGED <<head, refs, index, worktree, ignore, pc, loc>>

NextRead ==
    \/ Counted(MaxReadOps) /\ InitRepository
    \/ Counted(MaxReadOps) /\ \E f \in ForeignFiles : StoreForeign(f)
    \/ Counted(MaxReadOps) /\ \E content \in ForeignData : Put("Blob(false)", content)
    \/ Counted(MaxReadOps) /\ \E id \in DOMAIN objects : Get(id)

SpecRead == Init /\ [][NextRead]_vars

----------------------------------------------------------------------------
(* Pack files, pack.rs.  A file is a sequence of cells, one per byte:      *)
(* <<"b", v>> is the byte v; a zlib stream of n bytes is the cell          *)
(* <<"z", payload, n>>, which carries what the stream inflates to, and     *)
(* n - 1 cells <<"zc">>.  Offsets count from 0, as the file cursor does.   *)

B(v) == <<"b", v>>
Bytes(vs) == [i \in 1..Len(vs) |-> B(vs[i])]

\* The length of the zlib stream of a payload: not the payload's length.
ZLen(payload) == 2 + Len(payload) \div 2
ZStream(payload) ==
    <<<<"z", payload, ZLen(payload)>>>> \o [i \in 1..(ZLen(payload) - 1) |-> <<"zc">>]

\* What a call returns: a value (ret "ok") with the cursor it leaves, an
\* error value (ret "err"), or a panic that aborts the program (ret "panic").
Ok(val, cursor) == [ret |-> "ok", val |-> val, cursor |-> cursor, why |-> ""]
Err(why) == [ret |-> "err", val |-> <<>>, cursor |-> 0, why |-> why]
Panic(why) == [ret |-> "panic", val |-> <<>>, cursor |-> 0, why |-> why]

\* file.read_exact(&mut byte) at the cursor
ReadByte(file, pos) ==
    IF pos >= Len(file) THEN Err("failed to fill whole buffer")
    ELSE CASE file[pos + 1][1] = "b" -> Ok(file[pos + 1][2], pos + 1)
           [] file[pos + 1][1] = "z" -> Ok(120, pos + 1)

\* PackObjectType::from_u8
PackTypes == {"commit", "tree", "blob", "tag"}
FromU8(value) ==
    CASE value = 1 -> "commit"
      [] value = 2 -> "tree"
      [] value = 3 -> "blob"
      [] value = 4 -> "tag"
      [] value = 6 -> "ofs-delta"
      [] value = 7 -> "ref-delta"
      [] OTHER -> "unknown"

\* Builds: with overflow checks (debug) a shift by 32 or more panics,
\* without them (release) the shift count wraps.  The sizes and offsets of
\* the packs modelled stay far below 2^31, the sums never overflow.
Builds == {"debug", "release"}
ShiftAdd(build, acc, v, shift) ==
    IF build = "debug" /\ shift >= 32
    THEN Panic("attempt to shift left with overflow")
    ELSE Ok(acc + v * 2^(shift % 32), 0)

\* parse_pack_entry, lines 266-272: the size's continuation bytes
RECURSIVE ReadSize(_, _, _, _, _)
ReadSize(build, file, pos, size, bshift) ==
    LET r == ReadByte(file, pos) IN
    IF r.ret # "ok" THEN r
    ELSE LET s == ShiftAdd(build, size, r.val % 128, bshift) IN
         IF s.ret # "ok" THEN s
         ELSE IF r.val >= 128 THEN ReadSize(build, file, r.cursor, s.val, bshift + 7)
         ELSE Ok(s.val, r.cursor)

\* read_vli_be(file, true): the offset of an OfsDelta
RECURSIVE ReadVliBe(_, _, _)
ReadVliBe(file, pos, val) ==
    LET r == ReadByte(file, pos) IN
    IF r.ret # "ok" THEN r
    ELSE LET v == val * 128 + (r.val % 128) IN
         IF r.val >= 128 THEN ReadVliBe(file, r.cursor, v + 1)
         ELSE Ok(v, r.cursor)

\* read_vli_le over the inflated delta: the value and the position after it
RECURSIVE ReadVliLe(_, _, _, _, _)
ReadVliLe(build, data, at, val, shift) ==
    IF at > Len(data) THEN Err("failed to fill whole buffer")
    ELSE LET s == ShiftAdd(build, val, data[at] % 128, shift) IN
         IF s.ret # "ok" THEN s
         ELSE IF data[at] >= 128 THEN ReadVliLe(build, data, at + 1, s.val, shift + 7)
         ELSE Ok(s.val, at + 1)

\* decompress_file: inflate from the cursor to the end of the stream, then
\* seek to the cursor plus the compressed bytes consumed (total_in)
DecompressFile(file, pos) ==
    IF pos >= Len(file) THEN Err("corrupt deflate stream")
    ELSE IF file[pos + 1][1] # "z" \/ pos + file[pos + 1][3] > Len(file)
    THEN Err("corrupt deflate stream")
    ELSE Ok(file[pos + 1][2], pos + file[pos + 1][3])

\* make_delta_obj, lines 180-194: the bytes of a copy instruction that the
\* bits 0..5 of its first byte announce, the others 0
RECURSIVE ReadCopyArgs(_, _, _, _, _)
ReadCopyArgs(data, at, byt, i, vals) ==
    IF i = 6 THEN Ok(vals, at)
    ELSE IF (byt \div 2^i) % 2 = 1
    THEN IF at > Len(data) THEN Err("failed to fill whole buffer")
         ELSE ReadCopyArgs(data, at + 1, byt, i + 1, Append(vals, data[at]))
    ELSE ReadCopyArgs(data, at, byt, i + 1, Append(vals, 0))

\* Mutant of ApplyDelta: a byte 0 ends the instructions instead of being
\* passed over.
RECURSIVE ApplyDeltaZeroEnds(_, _, _, _, _)
ApplyDeltaZeroEnds(build, data, at, base, out) ==
    IF at > Len(data) THEN Ok(out, at)
    ELSE LET byt == data[at] IN
         IF byt = 0 THEN Ok(out, at)
         ELSE IF byt >= 128
         THEN LET a == ReadCopyArgs(data, at + 1, byt, 0, <<>>) IN
              IF a.ret # "ok" THEN a
              ELSE LET start == a.val[1] + 256 * a.val[2] + 65536 * a.val[3]
                                + 16777216 * a.val[4]
                       n == a.val[5] + 256 * a.val[6]
                       nbytes == IF n = 0 THEN 65536 ELSE n
                   IN  IF start + nbytes > Len(base)
                       THEN Panic("range out of bounds of the base")
                       ELSE ApplyDeltaZeroEnds(build, data, a.cursor, base,
                                       out \o SubSeq(base, start + 1, start + nbytes))
         ELSE IF at + byt > Len(data) THEN Err("failed to fill whole buffer")
         ELSE ApplyDeltaZeroEnds(build, data, at + 1 + byt, base,
                         out \o SubSeq(data, at + 1, at + byt))

\* make_delta_obj, lines 169-207: the instructions applied to the base
RECURSIVE ApplyDelta(_, _, _, _, _)
ApplyDelta(build, data, at, base, out) ==
    IF at > Len(data) THEN Ok(out, at)
    ELSE LET byt == data[at] IN
         IF byt = 0 THEN ApplyDelta(build, data, at + 1, base, out)
         ELSE IF byt >= 128
         THEN LET a == ReadCopyArgs(data, at + 1, byt, 0, <<>>) IN
              IF a.ret # "ok" THEN a
              ELSE LET start == a.val[1] + 256 * a.val[2] + 65536 * a.val[3]
                                + 16777216 * a.val[4]
                       n == a.val[5] + 256 * a.val[6]
                       nbytes == IF n = 0 THEN 65536 ELSE n
                   IN  IF start + nbytes > Len(base)
                       THEN Panic("range out of bounds of the base")
                       ELSE ApplyDelta(build, data, a.cursor, base,
                                       out \o SubSeq(base, start + 1, start + nbytes))
         ELSE IF at + byt > Len(data) THEN Err("failed to fill whole buffer")
         ELSE ApplyDelta(build, data, at + 1 + byt, base,
                         out \o SubSeq(data, at + 1, at + byt))

\* Mutant of MakeDeltaObj: the result keeps the type of the entry itself,
\* ofs-delta, instead of taking its base's.
MakeDeltaObjOwnType(build, file, pos, base_obj, object_size) ==
    LET d == DecompressFile(file, pos) IN
    IF d.ret # "ok" THEN d
    ELSE IF Len(d.val) # object_size THEN Panic("assertion failed: delta size")
    ELSE LET b == ReadVliLe(build, d.val, 1, 0, 0)
             q == ReadVliLe(build, d.val, b.cursor, 0, 0)
             o == ApplyDelta(build, d.val, q.cursor, base_obj.object_data, <<>>)
         IN  IF b.ret # "ok" THEN b
             ELSE IF q.ret # "ok" THEN q
             ELSE IF o.ret # "ok" THEN o
             ELSE IF Len(o.val) # q.val THEN Panic("assertion failed: patched size")
             ELSE Ok([object_type |-> "ofs-delta", object_size |-> q.val,
                      object_data |-> o.val, pos |-> pos, end_pos |-> d.cursor],
                     d.cursor)

\* make_delta_obj: the delta entry at the cursor, applied to its base
MakeDeltaObj(build, file, pos, base_obj, object_size) ==
    LET d == DecompressFile(file, pos) IN
    IF d.ret # "ok" THEN d
    ELSE IF Len(d.val) # object_size THEN Panic("assertion failed: delta size")
    ELSE LET b == ReadVliLe(build, d.val, 1, 0, 0)
             q == ReadVliLe(build, d.val, b.cursor, 0, 0)
             o == ApplyDelta(build, d.val, q.cursor, base_obj.object_data, <<>>)
         IN  IF b.ret # "ok" THEN b
             ELSE IF q.ret # "ok" THEN q
             ELSE IF o.ret # "ok" THEN o
             ELSE IF Len(o.val) # q.val THEN Panic("assertion failed: patched size")
             ELSE Ok([object_type |-> base_obj.object_type, object_size |-> q.val,
                      object_data |-> o.val, pos |-> pos, end_pos |-> d.cursor],
                     d.cursor)

RECURSIVE ParsePackEntry(_, _, _), ParsePackOfsDeltaObject(_, _, _, _, _)

\* Mutant of ParsePackOfsDeltaObject: the cursor is not put back after the
\* base is parsed, and the delta is read from where the base ended.
ParsePackOfsDeltaObjectNoRestore(build, file, pos, object_size, fpos) ==
    LET off == ReadVliBe(file, pos, 0) IN
    IF off.ret # "ok" THEN off
    ELSE IF off.val > fpos
    THEN IF build = "debug" THEN Panic("attempt to subtract with overflow")
         ELSE Err("Invalid argument")
    ELSE IF off.val = 0 THEN Panic("stack overflow")
    ELSE LET base == ParsePackEntry(build, file, fpos - off.val) IN
         IF base.ret # "ok" THEN base
         ELSE IF base.val.object_type \notin PackTypes
         THEN Panic("assertion failed: base type")
         ELSE MakeDeltaObj(build, file, base.cursor, base.val, object_size)

\* parse_pack_ofs_delta_object: the base parsed at fpos - offset, the cursor
\* put back after the offset, the delta applied.  An offset of 0 names the
\* entry itself and the recursion never ends, until the stack is used up;
\* an offset beyond fpos underflows the subtraction of line 234, a panic
\* with overflow checks, and without them a position the seek of line 242
\* refuses.
ParsePackOfsDeltaObject(build, file, pos, object_size, fpos) ==
    LET off == ReadVliBe(file, pos, 0) IN
    IF off.ret # "ok" THEN off
    ELSE IF off.val > fpos
    THEN IF build = "debug" THEN Panic("attempt to subtract with overflow")
         ELSE Err("Invalid argument")
    ELSE IF off.val = 0 THEN Panic("stack overflow")
    ELSE LET base == ParsePackEntry(build, file, fpos - off.val) IN
         IF base.ret # "ok" THEN base
         ELSE IF base.val.object_type \notin PackTypes
         THEN Panic("assertion failed: base type")
         ELSE MakeDeltaObj(build, file, off.cursor, base.val, object_size)

\* parse_pack_entry: the entry at the cursor
ParsePackEntry(build, file, pos) ==
    LET first == ReadByte(file, pos) IN
    IF first.ret # "ok" THEN first
    ELSE LET object_type == (first.val % 128) \div 16
             size == IF first.val >= 128
                     THEN ReadSize(build, file, first.cursor, first.val % 16, 4)
                     ELSE Ok(first.val % 16, first.cursor)
         IN  IF size.ret # "ok" THEN size
             ELSE CASE FromU8(object_type) = "unknown" -> Err("Unknown object type")
                    [] FromU8(object_type) \in PackTypes ->
                         LET d == DecompressFile(file, size.cursor) IN
                         IF d.ret # "ok" THEN d
                         ELSE IF Len(d.val) # size.val
                         THEN Panic("assertion failed: object size")
                         ELSE Ok([object_type |-> FromU8(object_type),
                                  object_size |-> size.val, object_data |-> d.val,
                                  pos |-> pos, end_pos |-> d.cursor], d.cursor)
                    [] FromU8(object_type) = "ofs-delta" ->
                         ParsePackOfsDeltaObject(build, file, size.cursor, size.val, pos)
                    [] FromU8(object_type) = "ref-delta" -> Panic("not implemented")

\* parse_pack_header: signature, version, number of objects
BeU32(file, pos) ==
    ((file[pos + 1][2] * 256 + file[pos + 2][2]) * 256 + file[pos + 3][2]) * 256
    + file[pos + 4][2]
ParsePackHeader(file) ==
    IF Len(file) < 12 THEN Err("failed to fill whole buffer")
    ELSE IF <<file[1][2], file[2][2], file[3][2], file[4][2]>> # <<80, 65, 67, 75>>
    THEN Err("Invalid pack file")
    ELSE IF BeU32(file, 4) # 2 THEN Err("Invalid pack file version")
    ELSE Ok([version |-> BeU32(file, 4), num_objects |-> BeU32(file, 8)], 12)

----------------------------------------------------------------------------
(* The packs given to the reader: what a pack writer lays out for a list   *)
(* of entries, well formed or not.                                         *)

\* An entry as the writer means it: a base object; a delta against the
\* entry back entries before it, announcing the true base_size or not, the
\* true patched_size or not; a base object whose header declares one byte
\* too many; a delta by base id; a delta at offset 0; a delta whose offset
\* leaves the file.
EntryChoices ==
    {[t |-> "base", type |-> 3, payload |-> <<65, 66>>],
     [t |-> "base", type |-> 1, payload |-> <<67>>],
     [t |-> "delta", back |-> 1, base_size_ok |-> TRUE, patched_ok |-> TRUE],
     [t |-> "delta", back |-> 2, base_size_ok |-> TRUE, patched_ok |-> TRUE],
     [t |-> "delta", back |-> 1, base_size_ok |-> FALSE, patched_ok |-> TRUE],
     [t |-> "delta", back |-> 1, base_size_ok |-> TRUE, patched_ok |-> FALSE],
     [t |-> "badsize"], [t |-> "ref"], [t |-> "self"], [t |-> "under"]}

FirstChoices == {c \in EntryChoices : c.t \in {"base", "badsize", "ref"}}

WellFormed(choices) ==
    \A i \in 1..Len(choices) :
        \/ choices[i].t = "base"
        \/ choices[i].t = "delta" /\ choices[i].base_size_ok /\ choices[i].patched_ok

\* The entry a delta of the writer's list is made against.
BaseIndex(choices, i) == IF i - choices[i].back >= 1 THEN i - choices[i].back ELSE i - 1

\* The type and payload the writer means entry i to resolve to.
RECURSIVE Meant(_, _)
Meant(choices, i) ==
    LET c == choices[i] IN
    CASE c.t = "base" -> [type |-> FromU8(c.type), data |-> c.payload]
      [] c.t = "delta" /\ c.back = 1 ->
           LET b == Meant(choices, BaseIndex(choices, i)) IN
           [type |-> b.type, data |-> <<b.data[1], 88>>]
      [] c.t = "delta" /\ c.back = 2 ->
           LET b == Meant(choices, BaseIndex(choices, i)) IN
           [type |-> b.type, data |-> <<b.data[Len(b.data)]>>]
      [] OTHER -> [type |-> "blob", data |-> <<65, 66>>]

\* The inflated instruction stream of delta i: base_size, patched_size,
\* then copy base[0..1] and insert 'X' (back 1), or copy the base's last
\* byte (back 2).
DeltaStream(choices, i) ==
    LET c == choices[i]
        n == Len(Meant(choices, BaseIndex(choices, i)).data)
        bs == IF c.base_size_ok THEN n ELSE n + 1
    IN  IF c.back = 1
        THEN <<bs, IF c.patched_ok THEN 2 ELSE 5, 144, 1, 1, 88>>
        ELSE <<bs, 1, 145, n - 1, 1>>

\* The bytes of entry i, which starts at offset start; starts holds the
\* offsets of the entries before it.
EntryBytes(choices, i, start, starts) ==
    LET c == choices[i] IN
    CASE c.t = "base" -> <<B(c.type * 16 + Len(c.payload))>> \o ZStream(c.payload)
      [] c.t = "badsize" -> <<B(3 * 16 + 3)>> \o ZStream(<<65, 66>>)
      [] c.t = "ref" -> <<B(7 * 16 + 2)>> \o Bytes([k \in 1..20 |-> 1]) \o ZStream(<<2, 2>>)
      [] c.t = "self" -> <<B(6 * 16 + 2), B(0)>> \o ZStream(<<2, 2>>)
      [] c.t = "under" -> <<B(6 * 16 + 2), B(127)>> \o ZStream(<<2, 2>>)
      [] c.t = "delta" ->
           <<B(6 * 16 + Len(DeltaStream(choices, i))),
             B(start - starts[BaseIndex(choices, i)])>>
           \o ZStream(DeltaStream(choices, i))

RECURSIVE Layout(_, _, _, _)
Layout(choices, i, bytes, starts) ==
    IF i > Len(choices)
    THEN [choices |-> choices, starts |-> starts,
          bytes |-> bytes \o Bytes([k \in 1..20 |-> 0])]
    ELSE Layout(choices, i + 1,
                bytes \o EntryBytes(choices, i, Len(bytes), starts),
                Append(starts, Len(bytes)))

PackOf(choices) ==
    Layout(choices, 1, Bytes(<<80, 65, 67, 75, 0, 0, 0, 2, 0, 0, 0, Len(choices)>>), <<>>)

RECURSIVE ChoiceLists(_)
ChoiceLists(n) ==
    IF n = 1 THEN {<<c>> : c \in FirstChoices}
    ELSE ChoiceLists(n - 1)
         \cup {Append(l, c) : l \in {m \in ChoiceLists(n - 1) : Len(m) = n - 1},
                              c \in EntryChoices}

Packs == {PackOf(l) : l \in ChoiceLists(MaxPackEntries)}

----------------------------------------------------------------------------
(* dump_pack, one run of the program over one pack file. *)

\* dump_pack, lines 322-325
DumpPackOpen(p, build) ==
    /\ pc = "idle"
    /\ last.op = "new"
    /\ LET h == ParsePackHeader(p.bytes) IN
       IF h.ret = "ok"
       THEN /\ pc' = "dump_pack"
            /\ loc' = [op |-> "dump_pack", build |-> build, file |-> p.bytes,
                       cursor |-> h.cursor, left |-> h.val.num_objects, n |-> 0,
                       input |-> p]
            /\ last' = Ret("dump_pack", TRUE, NoRef, "", h, <<>>, FALSE, NoRef)
       ELSE /\ pc' = "idle"
            /\ loc' = NoLoc
            /\ last' = Ret("dump_pack", FALSE, NoRef, h.ret, h, <<>>, FALSE, NoRef)
    /\ UNCHANGED <<head, dirs, objects, refs, index, worktree, ignore, steps>>

\* dump_pack, lines 327-342: one turn of the loop
DumpPackEntry ==
    /\ pc = "dump_pack"
    /\ loc.left > 0
    /\ LET r == ParsePackEntry(loc.build, loc.file, loc.cursor) IN
       IF r.ret = "ok"
       THEN /\ pc' = "dump_pack"
            /\ loc' = [loc EXCEPT !.cursor = r.cursor, !.left = @ - 1, !.n = @ + 1]
            /\ last' = Ret("parse_pack_entry", TRUE, NoRef, r.ret, r, <<>>, FALSE, NoRef)
       ELSE /\ pc' = "idle"
            /\ loc' = [loc EXCEPT !.op = "stopped"]
            /\ last' = Ret("parse_pack_entry", FALSE, NoRef, r.ret, r, <<>>, FALSE, NoRef)
    /\ UNCHANGED <<head, dirs, objects, refs, index, worktree, ignore, steps>>

\* dump_pack, lines 344-347: the trailing checksum is read, not verified
DumpPackEnd ==
    /\ pc = "dump_pack"
    /\ loc.left = 0
    /\ pc' = "idle"
    /\ loc' = [loc EXCEPT !.op = "stopped"]
    /\ last' = Ret("dump_pack_end", loc.cursor + 20 <= Len(loc.file), NoRef, "",
                   <<>>, <<>>, FALSE, NoRef)
    /\ UNCHANGED <<head, dirs, objects, refs, index, worktree, ignore, steps>>

NextPack ==
    \/ \E p \in Packs, build \in Builds : DumpPackOpen(p, build)
    \/ DumpPackEntry
    \/ DumpPackEnd

\* The program started on a pack file; the repository plays no part.
InitPack == Init /\ ignore = <<>>

SpecPack == InitPack /\ [][NextPack]_vars

----------------------------------------------------------------------------
(* dump_pack_index_file, one run of the program over one .idx file.  The   *)
(* file is its first eight bytes, the last slot of its fanout table (the   *)
(* number of objects) and the number of bytes that follow the table.       *)

\* 0xFF 't' 'O' 'c', and the bytes 't', '0', 'c' the code compares with
IdxMagic == <<255, 116, 79, 99>>
T0c == <<116, 48, 99>>

IdxFiles ==
    [magic : {<<b0, 116, b2, 99>> : b0 \in {255, 0}, b2 \in {79, 48, 111}},
     version : 1..3, fanout255 : 0..MaxIdxObjects, tail : {0, 40, 68, 96}]

\* dump_pack_index_file, lines 363-370: the magic is read and compared
IdxOpen(f) ==
    /\ pc = "idle"
    /\ last.op = "new"
    /\ IF f.magic[1] # 255 \/ T0c = SubSeq(f.magic, 2, 4)
       THEN /\ pc' = "idle"
            /\ loc' = [op |-> "stopped", file |-> f, fanout |-> FALSE]
            /\ last' = Ret("dump_pack_index_file", FALSE, NoRef, "err",
                           Err("Invalid pack index magic"), <<>>, FALSE, NoRef)
       ELSE /\ pc' = "idx_version"
            /\ loc' = [op |-> "dump_pack_index_file", file |-> f, fanout |-> FALSE]
            /\ last' = Ret("idx_magic", TRUE, NoRef, "", <<>>, <<>>, FALSE, NoRef)
    /\ UNCHANGED <<head, dirs, objects, refs, index, worktree, ignore, steps>>

\* dump_pack_index_file, lines 372-377: the version
IdxVersion ==
    /\ pc = "idx_version"
    /\ IF loc.file.version # 2
       THEN /\ pc' = "idle"
            /\ loc' = [loc EXCEPT !.op = "stopped"]
            /\ last' = Ret("dump_pack_index_file", FALSE, NoRef, "err",
                           Err("Invalid pack index version"), <<>>, FALSE, NoRef)
       ELSE /\ pc' = "idx_fanout"
            /\ UNCHANGED loc
            /\ last' = Ret("idx_version", TRUE, NoRef, "", <<>>, <<>>, FALSE, NoRef)
    /\ UNCHANGED <<head, dirs, objects, refs, index, worktree, ignore, steps>>

\* dump_pack_index_file, lines 379-389: the fanout table, whose last slot
\* is the number of objects
IdxFanout ==
    /\ pc = "idx_fanout"
    /\ pc' = "idx_tables"
    /\ loc' = [loc EXCEPT !.fanout = TRUE]
    /\ last' = Ret("idx_fanout", TRUE, NoRef, "", loc.file.fanout255, <<>>, FALSE, NoRef)
    /\ UNCHANGED <<head, dirs, objects, refs, index, worktree, ignore, steps>>

\* dump_pack_index_file, lines 391-425: names, CRCs, offsets of the objects,
\* then the two checksums
IdxTables ==
    /\ pc = "idx_tables"
    /\ pc' = "idle"
    /\ loc' = [loc EXCEPT !.op = "stopped"]
    /\ IF loc.file.tail >= 28 * loc.file.fanout255 + 40
       THEN last' = Ret("dump_pack_index_file", TRUE, NoRef, "ok",
                        Ok(loc.file.fanout255, 0), <<>>, FALSE, NoRef)
       ELSE last' = Ret("dump_pack_index_file", FALSE, NoRef, "err",
                        Err("failed to fill whole buffer"), <<>>, FALSE, NoRef)
    /\ UNCHANGED <<head, dirs, objects, refs, index, worktree, ignore, steps>>

NextIdx ==
    \/ \E f \in IdxFiles : IdxOpen(f)
    \/ IdxVersion
    \/ IdxFanout
    \/ IdxTables

SpecIdx == InitPack /\ [][NextIdx]_vars

----------------------------------------------------------------------------
(* The bytes of .git/index, index.rs. *)

\* The bytes of the file as runs: <<what, value, off, n>> stands for the n
\* bytes of value that start at its byte off (n >= 1).
Run(what, value, n) == <<what, value, 0, n>>

RECURSIVE RunsLen(_)
RunsLen(rs) == IF rs = <<>> THEN 0 ELSE Head(rs)[4] + RunsLen(Tail(rs))

\* nom take(n): the first n bytes of the input and what is left, an error
\* when the input is shorter
RECURSIVE Take(_, _)
Take(input, n) ==
    IF n = 0 THEN [ok |-> TRUE, got |-> <<>>, rest |-> input]
    ELSE IF input = <<>> THEN [ok |-> FALSE, got |-> <<>>, rest |-> <<>>]
    ELSE LET h == Head(input) IN
         IF h[4] <= n
         THEN LET t == Take(Tail(input), n - h[4]) IN
              [ok |-> t.ok, got |-> <<h>> \o t.got, rest |-> t.rest]
         ELSE [ok |-> TRUE, got |-> <<<<h[1], h[2], h[3], n>>>>,
               rest |-> <<<<h[1], h[2], h[3] + n, h[4] - n>>>> \o Tail(input)]

\* be_u32, be_u16: the number the bytes spell
BeValue(t, what, n) ==
    CASE t.got = <<Run(what, t.got[1][2], n)>> -> t.got[1][2]

\* parse_entry, line 101: flags & 0xFFF
PathCap == 4095

\* str::len of the names paths are made of; "deep" and "deeper" stand for
\* chains of nested directories whose relative paths have that many bytes
NameLen(n) ==
    CASE n \in {"a", "b"} -> 1
      [] n \in {".git", "HEAD", "refs", "main"} -> 4
      [] n \in {"index", "heads"} -> 5
      [] n = "objects" -> 7
      [] n = "deep" -> PathCap - 2
      [] n = "deeper" -> PathCap - 1

RECURSIVE JoinedLen(_)
JoinedLen(path) ==
    IF Len(path) = 1 THEN NameLen(path[1])
    ELSE NameLen(path[1]) + 1 + JoinedLen(Tail(path))

\* The length of the relative path list_all_files returns for an entry; an
\* object is the file objects/<2 hex digits>/<38 hex digits>.
PathLen(e) == JoinedLen(e.path) + (IF e.obj = NoRef THEN 0 ELSE 42)

\* file.as_bytes()
PathBytes(e) == <<Run("path", <<e.path, e.obj>>, PathLen(e))>>

\* std::fs::metadata: the ten fields of the entry, each cast to u32
Metadata(e) == <<"metadata", e.path, e.obj>>

\* write_index, lines 168-171: signature, version and count
EmitHeader(signature, version, count) ==
    <<Run("signature", signature, 4), Run("u32", version, 4), Run("u32", count, 4)>>

\* write_index, lines 192-212: the ten fields, the digest, the path length
\* as u16, the path bytes and the padding
EmitEntry(stat, sha1, path_bytes) ==
    LET entry_content ==
            <<Run("stat", stat, 40), Run("sha1", sha1, 20),
              Run("u16", RunsLen(path_bytes) % 65536, 2)>> \o path_bytes
        padding_len == 8 - (RunsLen(entry_content) % 8)
    IN  entry_content \o <<Run("nul", 0, padding_len)>>

RECURSIVE EmitEntries(_)
EmitEntries(entries) ==
    IF entries = <<>> THEN <<>>
    ELSE EmitEntry(Metadata(Head(entries)), Head(entries).sha1, PathBytes(Head(entries)))
         \o EmitEntries(Tail(entries))

\* write_index: the bytes written to .git/index
WriteIndexBytes(h, o, r, idx, wt, ign) ==
    LET written == WriteIndex(h, o, r, idx, wt, ign) IN
    EmitHeader(written.signature, written.version, written.count)
    \o EmitEntries(written.entries)

----------------------------------------------------------------------------
(* The staging-index reader, index.rs. *)

ParseFailed == [ok |-> FALSE]

\* parse_header: four bytes, then two big-endian u32
ParseHeader(input) ==
    LET s == Take(input, 4)
        v == Take(s.rest, 4)
        c == Take(v.rest, 4)
    IN  IF ~(s.ok /\ v.ok /\ c.ok) THEN ParseFailed
        ELSE [ok |-> TRUE, rest |-> c.rest,
              header |-> [signature |-> BeValue(s, "signature", 4),
                          version |-> BeValue(v, "u32", 4),
                          entries_count |-> BeValue(c, "u32", 4)]]

\* parse_entry: the fixed fields, flags & 0xFFF bytes of path, the padding.
\* padding holds the bytes taken at line 107, which the entry does not keep.
ParseEntry(input) ==
    LET f == Take(input, 40)
        d == Take(f.rest, 20)
        g == Take(d.rest, 2)
    IN  IF ~(f.ok /\ d.ok /\ g.ok) THEN ParseFailed
        ELSE LET flags == BeValue(g, "u16", 2)
                 path_len == flags % (PathCap + 1)
                 p == Take(g.rest, path_len)
                 padding_len ==
                     8 - (((RunsLen(input) - RunsLen(g.rest)) + path_len) % 8)
                 z == Take(p.rest, padding_len)
             IN  IF ~(p.ok /\ z.ok) THEN ParseFailed
                 ELSE [ok |-> TRUE, rest |-> z.rest,
                       entry |-> [stat |-> BeValue(f, "stat", 40),
                                  sha1 |-> BeValue(d, "sha1", 20),
                                  flags |-> flags,
                                  file_path |-> p.got],
                       padding |-> z.got]

\* parse_index, lines 53-57: entries_count times parse_entry
RECURSIVE ParseEntries(_, _)
ParseEntries(input, n) ==
    IF n = 0 THEN [ok |-> TRUE, rest |-> input, entries |-> <<>>, paddings |-> <<>>]
    ELSE LET e == ParseEntry(input) IN
         IF ~e.ok THEN ParseFailed
         ELSE LET more == ParseEntries(e.rest, n - 1) IN
              IF ~more.ok THEN ParseFailed
              ELSE [ok |-> TRUE, rest |-> more.rest,
                    entries |-> <<e.entry>> \o more.entries,
                    paddings |-> <<e.padding>> \o more.paddings]

\* parse_index
ParseIndex(input) ==
    LET h == ParseHeader(input) IN
    IF ~h.ok THEN ParseFailed
    ELSE LET es == ParseEntries(h.rest, h.header.entries_count) IN
         IF ~es.ok THEN ParseFailed
         ELSE [ok |-> TRUE, rest |-> es.rest, header |-> h.header,
               entries |-> es.entries, paddings |-> es.paddings]

\* Index::read_from_file: read the file, parse it
ReadFromFile(idx) ==
    IF idx = NoIndex THEN ParseFailed ELSE ParseIndex(idx)

\* Index files another program left in .git/index: the entries the writer
\* would emit, under a header of that program, whole or cut short.
ForeignSignatures == {"DIRC", "TREE"}
ForeignVersions == {2, 3}
ForeignCuts == {0, 1}

\* The paths of the working files of these runs.
IndexPaths == {<<"a">>, <<"b">>, <<"deep", "a">>, <<"deeper", "a">>}
DeepDirs == {<<"deep">>, <<"deeper">>}

\* write_index() with the bytes of the file; loc keeps the files listed
WriteIndexBytesOp ==
    /\ pc = "idle"
    /\ head # NoFile
    /\ index' = WriteIndexBytes(head, objects, refs, index, worktree, ignore)
    /\ loc' = [op |-> "write_index",
               files |-> WriteIndex(head, objects, refs, index, worktree, ignore).entries]
    /\ last' = Ret("write_index", TRUE, NoRef, "", <<>>, <<>>, FALSE, NoRef)
    /\ UNCHANGED <<head, dirs, objects, refs, worktree, ignore, pc>>

\* Another program writes .git/index
StoreForeignIndex(signature, version, cut) ==
    /\ pc = "idle"
    /\ head # NoFile
    /\ LET written == WriteIndex(head, objects, refs, index, worktree, ignore)
           bytes == EmitHeader(signature, version, written.count)
                    \o EmitEntries(written.entries)
       IN  /\ cut <= RunsLen(bytes)
           /\ index' = Take(bytes, RunsLen(bytes) - cut).got
           /\ loc' = [op |-> "foreign", files |-> written.entries]
    /\ last' = Ret("foreign", TRUE, NoRef, "", <<>>, <<>>, FALSE, NoRef)
    /\ UNCHANGED <<head, dirs, objects, refs, worktree, ignore, pc>>

\* read_index()
ReadIndexOp ==
    /\ pc = "idle"
    /\ last' = Ret("read_index", ReadFromFile(index).ok, NoRef, "", index,
                   ReadFromFile(index), FALSE, NoRef)
    /\ UNCHANGED <<head, dirs, objects, refs, index, worktree, ignore, pc, loc>>

\* The index written and read back, the working files changing in between.
NextIndex ==
    \/ Counted(MaxIndexOps) /\ InitRepository
    \/ Counted(MaxIndexOps) /\ \E p \in DeepDirs : MkDir(p)
    \/ Counted(MaxIndexOps) /\ \E p \in IndexPaths : EditFile(p, FileNode(<<Byte("a")>>, FALSE))
    \/ Counted(MaxIndexOps) /\ WriteIndexBytesOp
    \/ Counted(MaxIndexOps) /\ \E s \in ForeignSignatures, v \in ForeignVersions,
                                  c \in ForeignCuts : StoreForeignIndex(s, v, c)
    \/ Counted(MaxIndexOps) /\ ReadIndexOp

SpecIndex == InitPack /\ [][NextIndex]_vars

----------------------------------------------------------------------------
(* Packs of a base Blob and one OfsDelta on it: what a pack writer lays    *)
(* out for a list of copy and insert instructions.                         *)

\* The little-endian variable-length integer v: 7 bits a byte, low first.
RECURSIVE VliLe(_)
VliLe(v) == IF v < 128 THEN <<v>> ELSE <<128 + (v % 128)>> \o VliLe(v \div 128)

\* The header of an entry: type and the low 4 bits of the size, then the
\* rest of the size.
SizeHeader(type, size) ==
    IF size < 16 THEN <<type * 16 + size>>
    ELSE <<128 + type * 16 + (size % 16)>> \o VliLe(size \div 16)

\* The offset of an OfsDelta as a pack writer encodes it: high group first,
\* every group but the last one less than its value.
RECURSIVE OfsGroups(_, _)
OfsGroups(v, acc) ==
    IF v = 0 THEN acc
    ELSE OfsGroups((v - 1) \div 128, <<128 + ((v - 1) % 128)>> \o acc)
OffsetBytes(v) == OfsGroups(v \div 128, <<v % 128>>)

\* The six argument bytes of the copy of length bytes from offset; the
\* length 0x10000 is written as 0.
CopyVals(offset, length) ==
    LET n == IF length = 65536 THEN 0 ELSE length IN
    <<offset % 256, (offset \div 256) % 256, (offset \div 65536) % 256,
      offset \div 16777216, n % 256, n \div 256>>

\* A copy instruction: the byte that names which argument bytes follow, and
\* those bytes.  A writer leaves out the bytes that are 0, or (full) none.
RECURSIVE CopyBytes(_, _, _, _, _)
CopyBytes(vals, full, i, cmd, args) ==
    IF i > 6 THEN <<cmd>> \o args
    ELSE IF full \/ vals[i] # 0
    THEN CopyBytes(vals, full, i + 1, cmd + 2^(i - 1), Append(args, vals[i]))
    ELSE CopyBytes(vals, full, i + 1, cmd, args)

InstrBytes(ins) ==
    IF ins.op = "copy"
    THEN CopyBytes(CopyVals(ins.offset, ins.length), ins.full, 1, 128, <<>>)
    ELSE <<Len(ins.data)>> \o ins.data

RECURSIVE InstrsBytes(_)
InstrsBytes(instrs) ==
    IF instrs = <<>> THEN <<>>
    ELSE InstrBytes(Head(instrs)) \o InstrsBytes(Tail(instrs))

\* What the instructions mean: the inserted bytes and the slices of the
\* base, one after the other.
RECURSIVE Patched(_, _)
Patched(base, instrs) ==
    IF instrs = <<>> THEN <<>>
    ELSE LET ins == Head(instrs) IN
         (IF ins.op = "copy"
          THEN [k \in 1..ins.length |-> base[ins.offset + k]]
          ELSE ins.data)
         \o Patched(base, Tail(instrs))

\* The pack: header, the Blob base at offset 12, the OfsDelta, the trailer.
DeltaPackOf(base, instrs) ==
    LET stream == VliLe(Len(base)) \o VliLe(Len(Patched(base, instrs)))
                  \o InstrsBytes(instrs)
        first == Bytes(<<80, 65, 67, 75, 0, 0, 0, 2, 0, 0, 0, 2>>)
                 \o Bytes(SizeHeader(3, Len(base))) \o ZStream(base)
    IN  [base |-> base, instrs |-> instrs,
         bytes |-> first \o Bytes(SizeHeader(6, Len(stream)))
                   \o Bytes(OffsetBytes(Len(first) - 12))
                   \o ZStream(stream) \o Bytes([k \in 1..20 |-> 0])]

\* The bases: the twelve bytes "AAAABBBBCCCC", and 300 bytes.
BaseExample == <<65, 65, 65, 65, 66, 66, 66, 66, 67, 67, 67, 67>>
Base300 == [k \in 1..300 |-> k % 251]

\* A base long enough for a copy of 0x10000 bytes and for an offset of three
\* bytes.
BaseLong == [k \in 1..65540 |-> k % 251]

Copy(offset, length, full) ==
    [op |-> "copy", offset |-> offset, length |-> length, full |-> full]
Insert(data) == [op |-> "insert", data |-> data]

Inserts == {Insert(<<>>), Insert(<<88>>), Insert(<<88, 89>>)}
InstrChoices(base) ==
    Inserts \cup
    (IF base = BaseExample
     THEN {Copy(r[1], r[2], f) : r \in {<<0, 4>>, <<0, 8>>, <<8, 4>>}, f \in BOOLEAN}
     ELSE {Copy(r[1], r[2], f) : r \in {<<0, 4>>, <<0, 260>>, <<258, 4>>}, f \in BOOLEAN})

RECURSIVE InstrLists(_, _)
InstrLists(base, n) ==
    IF n = 1 THEN {<<c>> : c \in InstrChoices(base)}
    ELSE InstrLists(base, n - 1)
         \cup {Append(l, c) : l \in {m \in InstrLists(base, n - 1) : Len(m) = n - 1},
                              c \in InstrChoices(base)}

\* base "AAAABBBBCCCC" with copy[0..8], insert "X", copy[8..12]
ExampleInstrs == <<Copy(0, 8, FALSE), Insert(<<88>>), Copy(8, 4, FALSE)>>

\* copies of 0x10000 bytes, written as length 0, and a copy from 0x010001
LongInstrs ==
    {<<Copy(2, 65536, FALSE)>>, <<Copy(0, 65536, TRUE), Insert(<<88>>)>>,
     <<Insert(<<88>>), Copy(65537, 2, FALSE)>>}

\* The packs of instruction lists of at most n instructions, the example
\* and the long copies.
DeltaPacks(n) ==
    {DeltaPackOf(BaseExample, ExampleInstrs)}
    \cup {DeltaPackOf(BaseLong, l) : l \in LongInstrs}
    \cup {DeltaPackOf(BaseExample, l) : l \in InstrLists(BaseExample, n)}
    \cup {DeltaPackOf(Base300, l) : l \in InstrLists(Base300, n)}

\* dump_pack over a pack of a base and a delta on it
NextDelta ==
    \/ \E p \in DeltaPacks(MaxInstrs), build \in Builds : DumpPackOpen(p, build)
    \/ DumpPackEntry
    \/ DumpPackEnd

SpecDelta == InitPack /\ [][NextDelta]_vars

----------------------------------------------------------------------------
(* The side-band decoder, http.rs.  The response is a sequence of bytes.   *)

\* usize::from_str_radix(_, 16) on one character: its value, 16 when it is
\* no hexadecimal digit
HexDigit(b) ==
    IF b >= 48 /\ b <= 57 THEN b - 48
    ELSE IF b >= 97 /\ b <= 102 THEN b - 87
    ELSE IF b >= 65 /\ b <= 70 THEN b - 55
    ELSE 16

\* std::str::from_utf8 and usize::from_str_radix(length_str, 16) on the four
\* bytes at the cursor; a leading '+' is accepted
ParseLength(bs) ==
    IF \E i \in 1..4 : bs[i] >= 128 THEN Err("invalid utf-8 sequence")
    ELSE LET ds == IF bs[1] = 43 THEN Tail(bs) ELSE bs IN
         IF \E i \in 1..Len(ds) : HexDigit(ds[i]) = 16
         THEN Err("invalid digit found in string")
         ELSE IF Len(ds) = 3
         THEN Ok((HexDigit(ds[1]) * 16 + HexDigit(ds[2])) * 16 + HexDigit(ds[3]), 0)
         ELSE Ok(((HexDigit(ds[1]) * 16 + HexDigit(ds[2])) * 16 + HexDigit(ds[3])) * 16
                 + HexDigit(ds[4]), 0)

Break(val) == [ret |-> "break", val |-> val, cursor |-> 0, why |-> ""]

\* decode_git_response, lines 137-157: one turn of the loop; val is
\* pack_data after it
DecodeFrame(content, cursor, pack_data) ==
    IF cursor + 4 > Len(content) THEN Panic("range end index out of range")
    ELSE LET length == ParseLength(SubSeq(content, cursor + 1, cursor + 4)) IN
         IF length.ret # "ok" THEN length
         ELSE IF length.val = 0 THEN Break(pack_data)
         ELSE IF cursor + 4 + length.val - 4 < cursor + 4
         THEN Panic("slice index starts after its end")
         ELSE IF cursor + 4 + length.val - 4 > Len(content)
         THEN Panic("range end index out of range")
         ELSE LET payload == SubSeq(content, cursor + 5, cursor + length.val) IN
              IF payload = <<>> THEN Panic("index out of bounds")
              ELSE IF payload[1] = 1
              THEN Ok(pack_data \o Tail(payload), cursor + length.val)
              ELSE Ok(pack_data, cursor + length.val)

\* The responses given to the decoder: what a server frames.  A frame is a
\* channel byte and a body, or a flush, or a delim.
HexChar(d) == IF d < 10 THEN 48 + d ELSE 87 + d
Hex4(n) ==
    <<HexChar(n \div 4096), HexChar((n \div 256) % 16), HexChar((n \div 16) % 16),
      HexChar(n % 16)>>

Frame(channel, body) == [t |-> "frame", channel |-> channel, body |-> body]
Flush == [t |-> "flush"]
Delim == [t |-> "delim"]

\* pack data, progress, an error line, and the line "p" of a section header
FrameChoices ==
    {Frame(1, <<80>>), Frame(1, <<65, 67>>), Frame(2, <<46>>), Frame(3, <<33>>),
     Frame(112, <<10>>), Flush, Delim}

FrameBytes(f) ==
    CASE f.t = "flush" -> Hex4(0)
      [] f.t = "delim" -> Hex4(1)
      [] f.t = "frame" -> Hex4(4 + 1 + Len(f.body)) \o <<f.channel>> \o f.body

RECURSIVE FramesBytes(_)
FramesBytes(frames) ==
    IF frames = <<>> THEN <<>>
    ELSE FrameBytes(Head(frames)) \o FramesBytes(Tail(frames))

RECURSIVE FrameLists(_)
FrameLists(n) ==
    IF n = 0 THEN {<<>>}
    ELSE FrameLists(n - 1)
         \cup {Append(l, f) : l \in {m \in FrameLists(n - 1) : Len(m) = n - 1},
                              f \in FrameChoices}

Responses == {[frames |-> l, bytes |-> FramesBytes(l)] : l \in FrameLists(MaxFrames)}

\* decode_git_response, lines 133-134
DecodeOpen(resp) ==
    /\ pc = "idle"
    /\ last.op = "new"
    /\ pc' = "decode"
    /\ loc' = [op |-> "decode_git_response", content |-> resp.bytes, cursor |-> 0,
               pack_data |-> <<>>, turns |-> 0, input |-> resp]
    /\ last' = Ret("post", TRUE, NoRef, "", <<>>, <<>>, FALSE, NoRef)
    /\ UNCHANGED <<head, dirs, objects, refs, index, worktree, ignore, steps>>

\* decode_git_response, lines 136-158: one turn of the loop; a length of 0
\* leaves the loop, and lines 160-166 write pack_data and return
DecodeTurn ==
    /\ pc = "decode"
    /\ loc.cursor < Len(loc.content)
    /\ LET r == DecodeFrame(loc.content, loc.cursor, loc.pack_data) IN
       IF r.ret = "ok"
       THEN /\ pc' = "decode"
            /\ loc' = [loc EXCEPT !.cursor = r.cursor, !.pack_data = r.val,
                                  !.turns = @ + 1]
            /\ UNCHANGED last
       ELSE /\ pc' = "idle"
            /\ loc' = [loc EXCEPT !.op = "stopped"]
            /\ last' = Ret("decode_git_response", r.ret = "break", NoRef, r.ret,
                           r, IF r.ret = "break" THEN r.val ELSE <<>>, FALSE, NoRef)
    /\ UNCHANGED <<head, dirs, objects, refs, index, worktree, ignore, steps>>

\* decode_git_response, lines 160-166: the end of the content is reached
DecodeEnd ==
    /\ pc = "decode"
    /\ loc.cursor >= Len(loc.content)
    /\ pc' = "idle"
    /\ loc' = [loc EXCEPT !.op = "stopped"]
    /\ last' = Ret("decode_git_response", TRUE, NoRef, "ok",
                   Ok(loc.pack_data, loc.cursor), loc.pack_data, FALSE, NoRef)
    /\ UNCHANGED <<head, dirs, objects, refs, index, worktree, ignore, steps>>

NextDecode ==
    \/ \E resp \in Responses : DecodeOpen(resp)
    \/ DecodeTurn
    \/ DecodeEnd

SpecDecode == InitPack /\ [][NextDecode]_vars

----------------------------------------------------------------------------
(* The object store: claims C1, C2, C6 (specification Spec). *)

\* C1: for every kind K and payload P, get of the id that put(K, P) returned
\* succeeds and yields P, and the id is the digest of K and P whenever put is
\* called.
C1_GetOfPutYieldsPayload ==
    (last.op = "put" /\ last.ok) =>
        LET g == ReadObject(objects, last.id) IN
        /\ g.ok
        /\ ObjectData(g) = last.arg
        /\ last.id = ObjectId(last.kind, last.arg)

\* C2: a put whose object file already exists returns the id and leaves the
\* object store as it was: no file or directory created, rewritten or removed.
C2_PutExistingLeavesStore ==
    [][(last'.op = "put" /\ last'.ok /\ last'.id \in DOMAIN objects)
        => (objects' = objects /\ dirs' = dirs
            /\ last'.id = ObjectId(last'.kind, last'.arg))]_vars

C2_Witness == last.op = "put" /\ last.ok /\ last.hit

\* C6: objects accumulate append-only: whatever operation runs, every object
\* file stored before it is stored after it under the same id with the same
\* content.
C6_ObjectsAppendOnly ==
    [][\A id \in DOMAIN objects :
          id \in DOMAIN objects' /\ objects'[id] = objects[id]]_vars

C6_Witness ==
    /\ last.op = "write_index"
    /\ \E id \in DOMAIN objects : objects[id].kind = "commit"
    /\ Cardinality(DOMAIN objects) >= 3

----------------------------------------------------------------------------
(* The commit chain: claims C4, C7, C8 (specification SpecCommit). *)

\* The header of a commit payload: the lines before the first empty line.
HeaderOf(lines) ==
    LET e == FirstEmptyLine(lines, 1) IN
    IF e = 0 THEN lines ELSE SubSeq(lines, 1, e - 1)

\* The parent lines of a commit payload: the header lines "parent ...".
ParentLines(lines) == SelectSeq(HeaderOf(lines), LAMBDA l : l[2] = "parent ")
TreeLines(lines) == SelectSeq(HeaderOf(lines), LAMBDA l : l[2] = "tree ")

\* A commit and its ancestors along the parent header, newest first.
RECURSIVE Ancestry(_, _)
Ancestry(o, id) ==
    LET ps == ParentLines(o[id].data) IN
    <<id>> \o (IF ps = <<>> THEN <<>> ELSE Ancestry(o, ps[1][4]))

\* C4: after commit(m) returns c, current_commit() is c and log() prints one
\* line per commit: c, then the tip current before the commit and its
\* ancestors in parent order, each with the first line of its message.
C4_LogVisitsChain ==
    (last.op = "commit" /\ last.ok) =>
        LET l == Log(head, refs, objects)
            chain == <<last.id>> \o (IF last.prev = NoRef THEN <<>>
                                     ELSE Ancestry(objects, last.prev))
        IN  /\ CurrentCommit(head, refs) = [ok |-> TRUE, val |-> last.id]
            /\ l.ok
            /\ Len(l.out) = Len(chain)
            /\ \A i \in 1..Len(chain) :
                  LET lines == objects[chain[i]].data IN
                  l.out[i] = <<chain[i], lines[FirstEmptyLine(lines, 1) + 1]>>

\* C7: every stored commit has a tree line naming a stored Tree, and its
\* parent line, when it has one, names a stored Commit.
C7_CommitRefsResolve ==
    \A id \in DOMAIN objects :
        objects[id].kind = "commit" =>
            LET lines == objects[id].data IN
            /\ Len(TreeLines(lines)) = 1
            /\ \A i \in 1..Len(TreeLines(lines)) :
                  LET t == ReadObject(objects, TreeLines(lines)[i][4]) IN
                  t.ok /\ t.kind = "Tree"
            /\ \A i \in 1..Len(ParentLines(lines)) :
                  LET c == ReadObject(objects, ParentLines(lines)[i][4]) IN
                  c.ok /\ c.kind = "Commit"

C7_Witness ==
    \E id \in DOMAIN objects :
        /\ objects[id].kind = "commit"
        /\ ParentLines(objects[id].data) # <<>>
        /\ objects[TreeLines(objects[id].data)[1][4]].data # <<>>

\* C8: history is linear: a commit made while the branch has no tip has no
\* parent line in its header, and any other has exactly one, naming the tip
\* that was current when commit was called.
C8_LinearHistory ==
    (last.op = "commit" /\ last.ok) =>
        ParentLines(objects[last.id].data) =
            (IF last.prev = NoRef THEN <<>>
             ELSE <<Line("parent ", "", last.prev)>>)

C8_Witness ==
    /\ last.op = "commit"
    /\ last.ok
    /\ last.prev # NoRef
    /\ Len(Ancestry(objects, last.id)) = 2

----------------------------------------------------------------------------
(* The tree builder: claims C9, C10 (specification SpecTree). *)

\* The names of a stored tree's entries, in stored order.
EntryNames(o, id) == [i \in 1..Len(o[id].data) |-> o[id].data[i][3]]

\* The tree stored for the subdirectory name of the tree id.
SubTree(o, id, name) ==
    (CHOOSE e \in {o[id].data[i] : i \in 1..Len(o[id].data)} : e[3] = name)[4]

\* C9: write_tree(D) returns the same id in whatever order the filesystem
\* lists D and its subdirectories, and the entries of every emitted Tree are
\* in ascending order of name, no name twice.
C9_TreeCanonical ==
    /\ last.op = "write_tree" =>
          \A ord \in Orders(last.arg) :
              WriteTree([dirs |-> dirs, objects |-> objects], last.arg, TRUE,
                        ignore, ord, <<>>).id = last.id
    /\ \A id \in DOMAIN objects :
          objects[id].kind = "tree" =>
              \A i \in 1..(Len(objects[id].data) - 1) :
                  NameRank(EntryNames(objects, id)[i])
                      < NameRank(EntryNames(objects, id)[i + 1])

C9_Witness ==
    /\ last.op = "write_tree"
    /\ EntryNames(objects, last.id) = <<"a", "b">>
    /\ EntryNames(objects, SubTree(objects, last.id, "a")) = <<"a", "b">>

\* What C10 expects of the tree emitted for the directory path: one entry
\* for each child that is neither named .git nor matched by an ignore pattern.
KeptNames(wt, ign, path) ==
    {n \in Children(wt, TRUE, path) : n # ".git" /\ ~Ignored(Append(path, n), ign)}

\* C10: the tree emitted for a directory leaves out the children named .git
\* and those an ignore pattern of the repository matches, and holds exactly
\* one entry for every other child.
C10_TreeLeavesOutIgnored ==
    last.op = "write_tree" =>
        LET names == EntryNames(objects, last.id) IN
        /\ {names[i] : i \in 1..Len(names)} = KeptNames(last.arg, ignore, <<>>)
        /\ Len(names) = Cardinality(KeptNames(last.arg, ignore, <<>>))

----------------------------------------------------------------------------
(* Interrupted operations: claims C3, C5 (specification SpecCrash). *)

\* An object file that decodes to the complete framed object whose digest is
\* its name.
Complete(o, id) ==
    /\ id \in DOMAIN o
    /\ o[id].fin
    /\ Sha1(o[id].kind, o[id].size, o[id].data) = id

\* C3: whatever step of commit a crash follows, the branch tip is what it was
\* or names a commit object that is completely stored: no step leaves the tip
\* naming anything else.
C3_TipNeverDangles ==
    [][\/ CurrentCommit(head', refs') = CurrentCommit(head, refs)
       \/ /\ CurrentCommit(head', refs').ok
          /\ Complete(objects', CurrentCommit(head', refs').val)
          /\ objects'[CurrentCommit(head', refs').val].kind = "commit"]_vars

\* C5: at every moment of every put, interrupted or not, a loose object file
\* present at the path of an id decodes to the complete framed object whose
\* digest is that id.
C5_NoPartialObjectFile == \A id \in DOMAIN objects : Complete(objects, id)

----------------------------------------------------------------------------
(* Reading objects: claim C11 (specification SpecRead). *)

\* C11: a get followed by a full read that succeeds has yielded exactly the
\* number of payload bytes the object's header declares: when the stored
\* payload's length differs from the declared size the read fails.
C11_ReaderYieldsDeclaredSize ==
    (last.op = "get" /\ last.ok) =>
        ContentLen(last.out) = objects[last.id].size

----------------------------------------------------------------------------
(* The pack reader: claims C12, C13, C19, C20 (specification SpecPack). *)

\* The entry of the writer's list that the last turn of the loop parsed, or
\* stopped at.
Attempted == IF last.ok THEN loc.n ELSE loc.n + 1
AttemptedChoice == loc.input.choices[Attempted]

\* The size the pack announces for entry k: the size of its header for a
\* base object, the patched_size of its instruction stream for a delta.
Announced(k) ==
    IF loc.input.choices[k].t = "delta"
    THEN DeltaStream(loc.input.choices, k)[2]
    ELSE loc.file[loc.input.starts[k] + 1][2] % 16

\* C12: every object the pack parser returns has a payload as long as the
\* size declared for it (base types) or its patched_size (deltas), and an
\* object resolved through a chain of OfsDeltas has the type of the chain's
\* non-delta ancestor.
C12_PackObjectSizeAndType ==
    (last.op = "parse_pack_entry" /\ last.ok) =>
        /\ Len(last.arg.val.object_data) = Announced(loc.n)
        /\ last.arg.val.object_size = Announced(loc.n)
        /\ last.arg.val.object_type = Meant(loc.input.choices, loc.n).type

C12_Witness ==
    /\ last.op = "parse_pack_entry"
    /\ last.ok
    /\ loc.n = 3
    /\ loc.input.choices[3].t = "delta"
    /\ loc.input.choices[2].t = "delta"
    /\ last.arg.val.object_type = "commit"

\* C13: parsing a RefDelta entry ends with an error value returned to the
\* caller, not with a panic.
C13_RefDeltaIsAnError ==
    (last.op = "parse_pack_entry" /\ AttemptedChoice.t = "ref") =>
        last.arg.ret = "err"

\* Where the cursor stands before entry k of a pack is parsed: at the
\* entry's first byte, or at the trailer after the last entry.
StartOf(k) ==
    IF k <= Len(loc.input.starts) THEN loc.input.starts[k]
    ELSE Len(loc.file) - 20

\* C19: in a well-formed pack every entry, base object or delta chain, is
\* parsed with success from its own start offset, once, and leaves the
\* cursor on the first byte after its compressed data.
C19_CursorAfterEntry ==
    (loc.op \in {"dump_pack", "stopped"} /\ WellFormed(loc.input.choices)) =>
        /\ loc.cursor = StartOf(loc.n + 1)
        /\ loc.n + loc.left = Len(loc.input.choices)
        /\ last.op \in {"parse_pack_entry", "dump_pack_end"} => last.ok
        /\ last.op = "parse_pack_entry" => last.arg.val.end_pos = StartOf(loc.n + 1)

C19_Witness ==
    /\ last.op = "dump_pack_end"
    /\ WellFormed(loc.input.choices)
    /\ loc.n = 3
    /\ loc.input.choices[3] = [t |-> "delta", back |-> 1, base_size_ok |-> TRUE,
                               patched_ok |-> TRUE]
    /\ loc.input.choices[2].t = "delta"

\* C20: a delta whose announced base_size differs from the length of its
\* resolved base is rejected, not applied.
C20_BaseSizeChecked ==
    (last.op = "parse_pack_entry" /\ AttemptedChoice.t = "delta"
        /\ ~AttemptedChoice.base_size_ok) => ~last.ok

----------------------------------------------------------------------------
(* The pack-index reader: claim C14 (specification SpecIdx). *)

\* C14: the fanout table is read only of a file whose magic is 0xFF 't' 'O'
\* 'c' and whose version is 2; a run over a file with another magic ends
\* with the magic error, over one with that magic and another version with
\* the version error.
C14_IdxMagicAndVersion ==
    /\ (loc.op \in {"dump_pack_index_file", "stopped"} /\ loc.fanout) =>
          (loc.file.magic = IdxMagic /\ loc.file.version = 2)
    /\ (last.op = "dump_pack_index_file" /\ loc.file.magic # IdxMagic) =>
          (~last.ok /\ last.arg.why = "Invalid pack index magic")
    /\ (last.op = "dump_pack_index_file" /\ loc.file.magic = IdxMagic
           /\ loc.file.version # 2) =>
          (~last.ok /\ last.arg.why = "Invalid pack index version")

----------------------------------------------------------------------------
(* The staging index: claims C15-C18 (specification SpecIndex). *)

\* C15: the index reader accepts only a file whose 12-byte header has
\* signature DIRC and version 2, and then returns exactly count entries in
\* file order; a header with another signature or version is rejected.
C15_ReaderChecksHeader ==
    (last.op = "read_index" /\ last.ok) =>
        /\ last.out.header.signature = "DIRC"
        /\ last.out.header.version = 2
        /\ Len(last.out.entries) = last.out.header.entries_count

\* The runs the writer emitted for the i-th file: the ten fields, the digest,
\* the flags, the path and the padding.
EntryRuns(bytes, i) == SubSeq(bytes, 3 + 5 * (i - 1) + 1, 3 + 5 * i)

RECURSIVE ReEmitEntries(_)
ReEmitEntries(entries) ==
    IF entries = <<>> THEN <<>>
    ELSE EmitEntry(Head(entries).stat, Head(entries).sha1, Head(entries).file_path)
         \o ReEmitEntries(Tail(entries))

\* The bytes the writer's encoding gives for an index that was read.
ReEmit(parsed) ==
    EmitHeader(parsed.header.signature, parsed.header.version,
               parsed.header.entries_count)
    \o ReEmitEntries(parsed.entries)

\* The index file is the one write_index wrote for the files loc.files, and
\* read_index has just read it.
ReadBack == last.op = "read_index" /\ loc.op = "write_index"

Min(a, b) == IF a < b THEN a ELSE b

----------------------------------------------------------------------------
(* Delta reconstruction: claim C21 (specification SpecDelta). *)

\* parse_pack_entry has just ended on the delta, the second entry.
DeltaTried ==
    /\ last.op = "parse_pack_entry"
    /\ ~(loc.n = 1 /\ last.ok)

\* C21: the payload reconstructed from a delta is the concatenation, in
\* instruction order, of the bytes of the insert instructions and of the
\* slices base[offset : offset+length] of the copy instructions, offset and
\* length little-endian from the bytes the instruction's low bits announce.
C21_DeltaReconstruction ==
    DeltaTried =>
        /\ last.ok
        /\ loc.n = 2
        /\ last.arg.val.object_data = Patched(loc.input.base, loc.input.instrs)
        /\ last.arg.val.object_type = "blob"

\* "AAAABBBBCCCC" with copy[0..8], insert "X", copy[8..12]: "AAAABBBBXCCCC"
C21_Witness ==
    /\ DeltaTried
    /\ loc.input.base = BaseExample
    /\ loc.input.instrs = ExampleInstrs
    /\ last.arg.val.object_data
           = <<65, 65, 65, 65, 66, 66, 66, 66, 88, 67, 67, 67, 67>>

----------------------------------------------------------------------------
(* The side-band decoder: claim C22 (specification SpecDecode). *)

\* The bodies of the channel-1 frames, in frame order.
RECURSIVE PackStream(_)
PackStream(frames) ==
    IF frames = <<>> THEN <<>>
    ELSE (IF Head(frames).t = "frame" /\ Head(frames).channel = 1
          THEN Head(frames).body ELSE <<>>)
         \o PackStream(Tail(frames))

\* C22: decoding a side-band response concatenates, in frame order, the
\* bodies of all channel-1 frames and nothing else into the pack stream;
\* flush and delim frames are passed over without error.
C22_SideBandDecoding ==
    last.op = "decode_git_response" =>
        /\ last.ok
        /\ last.out = PackStream(loc.input.frames)

----------------------------------------------------------------------------
(* The recursion of the pack reader: claim C23 (specification SpecPack). *)

\* C23: parsing a pack entry terminates for every input: an OfsDelta whose
\* offset is 0 or larger than the entry's own start ends with an error
\* value, and no entry ends in an endless recursion or in an arithmetic
\* underflow.
C23_OfsDeltaTerminates ==
    last.op = "parse_pack_entry" =>
        /\ last.arg.why \notin {"stack overflow", "attempt to subtract with overflow"}
        /\ AttemptedChoice.t \in {"self", "under"} => last.arg.ret = "err"

====
